---- MODULE Spec2Model ----
(***************************************************************************)
(* Model of datenel-vue3: the date utilities (getCalendarDates,            *)
(* calculateWeekNum, getL10Weekday) and the two picker components          *)
(* (SingleDatePicker, SingleWeekPicker) that use them.                     *)
(*                                                                         *)
(* A Date of the host is modelled by its local calendar day (days since    *)
(* 1970-01-01, proleptic Gregorian) and its local hour of day.  Time       *)
(* values are counted in hours, so the source's 24*60*60*1000 ms is 24.    *)
(***************************************************************************)
EXTENDS Integers, Sequences, FiniteSets, TLC

\* ------------------------------------------------------------------------
\* Bounds of the model
\* ------------------------------------------------------------------------
\* two windows of years: one around the two-digit years, one modern
SmallYearFirst == 98
SmallYearLast == 101
ModernYearFirst == 2019
ModernYearLast == 2026
\* month arguments handed to getCalendarDates: -MonthUnder .. 11 + MonthOver
MonthUnder == 2
MonthOver == 3

SmallYears == SmallYearFirst..SmallYearLast
ModernYears == ModernYearFirst..ModernYearLast
Years == SmallYears \cup ModernYears
Months == 0..11
MonthArgs == (0 - MonthUnder)..(11 + MonthOver)

\* ------------------------------------------------------------------------
\* The host's Date (ECMAScript): calendar arithmetic
\* ------------------------------------------------------------------------
HoursPerDay == 24

\* the host's time zones: no daylight saving time, or daylight saving time
\* on the northern or on the southern half of the year
Zones == {"fixed", "north", "south"}

IsLeapYear(y) == (y % 4 = 0 /\ y % 100 # 0) \/ y % 400 = 0

DaysInMonth(y, m) ==
    CASE m = 1 -> IF IsLeapYear(y) THEN 29 ELSE 28
      [] m \in {3, 5, 8, 10} -> 30
      [] OTHER -> 31

\* ECMAScript DayFromYear: day number of January 1st of year y
DayFromYear(y) ==
    365 * (y - 1970) + ((y - 1969) \div 4) - ((y - 1901) \div 100)
        + ((y - 1601) \div 400)

RECURSIVE DaysBeforeMonth(_, _)
DaysBeforeMonth(y, m) ==
    IF m = 0 THEN 0 ELSE DaysBeforeMonth(y, m - 1) + DaysInMonth(y, m - 1)

\* ECMAScript MakeDay: month and date overflow roll into adjacent months/years
MakeDay(year, month, date) ==
    LET ym == year + (month \div 12)
        mn == month % 12
    IN DayFromYear(ym) + DaysBeforeMonth(ym, mn) + date - 1

\* the Date constructor maps the years 0..99 to 1900..1999
MakeFullYear(year) == IF year >= 0 /\ year <= 99 THEN 1900 + year ELSE year

\* year, month (0-based) and day of month of a day number: the inverse of
\* MakeDay, computed in eras of 400 years that start on March 1st
\* (doe: day of era, yoe: year of era, doy: day of year, mp: month from March)
CivilOfMonth(era, yoe, doy, mp) ==
    [year |-> yoe + era * 400 + (IF mp < 10 THEN 0 ELSE 1),
     month |-> (IF mp < 10 THEN mp + 3 ELSE mp - 9) - 1,
     date |-> doy - ((153 * mp + 2) \div 5) + 1]

CivilOfDayOfYear(era, yoe, doy) ==
    CivilOfMonth(era, yoe, doy, (5 * doy + 2) \div 153)

CivilOfYearOfEra(era, doe, yoe) ==
    CivilOfDayOfYear(era, yoe, doe - (365 * yoe + (yoe \div 4) - (yoe \div 100)))

CivilOfDayOfEra(era, doe) ==
    CivilOfYearOfEra(era, doe,
        (doe - (doe \div 1460) + (doe \div 36524) - (doe \div 146096)) \div 365)

CivilOfEra(z, era) == CivilOfDayOfEra(era, z - era * 146097)

CivilFromDay(day) == CivilOfEra(day + 719468, (day + 719468) \div 146097)

\* new Date(year, month, date): local midnight
NewDate(year, month, date) ==
    [day |-> MakeDay(MakeFullYear(year), month, date), hr |-> 0]

getFullYear(d) == CivilFromDay(d.day).year
getMonth(d) == CivilFromDay(d.day).month
getDate(d) == CivilFromDay(d.day).date
\* 0 = Sunday .. 6 = Saturday; 1970-01-01 was a Thursday
getDay(d) == (d.day + 4) % 7

\* Date.prototype.setDate: the time of day is kept, no two-digit year mapping
setDate(d, dt) == [day |-> MakeDay(getFullYear(d), getMonth(d), dt), hr |-> d.hr]

\* Date.prototype.setHours(0, 0, 0, 0)
setHoursZero(d) == [day |-> d.day, hr |-> 0]

\* placeholders of a Date and of a week where none is held
NoDate == [day |-> 0, hr |-> 0]
NoWeek == [weekYear |-> 0, weekNum |-> 0]

\* daylight saving time: one hour, April..October (north), October..March (south)
DstHours(z, d) ==
    CASE z = "north" -> IF getMonth(d) \in 3..9 THEN 1 ELSE 0
      [] z = "south" -> IF getMonth(d) \in {9, 10, 11, 0, 1, 2} THEN 1 ELSE 0
      [] OTHER -> 0

\* Date.prototype.getTime, in hours, up to the zone's constant standard offset
getTimeIn(z, d) == d.day * HoursPerDay + d.hr - DstHours(z, d)

\* ------------------------------------------------------------------------
\* The host's values: a ref may hold a number, NaN or a string (the year
\* input's v-model stores the typed text); a string is a sequence of
\* one-character strings
\* ------------------------------------------------------------------------
Num(n) == [t |-> "num", n |-> n, s |-> <<>>]
NaN == [t |-> "nan", n |-> 0, s |-> <<>>]
Str(s) == [t |-> "str", n |-> 0, s |-> s]

DigitChars == <<"0", "1", "2", "3", "4", "5", "6", "7", "8", "9">>
IsDigit(c) == \E i \in 1..10 : DigitChars[i] = c
DigitVal(c) == (CHOOSE i \in 1..10 : DigitChars[i] = c) - 1

\* the digits at the start of s, as a count
RECURSIVE LeadingDigits(_)
LeadingDigits(s) ==
    IF s # <<>> /\ IsDigit(Head(s)) THEN 1 + LeadingDigits(Tail(s)) ELSE 0

\* the value of a sequence of digits
RECURSIVE DigitsValue(_)
DigitsValue(s) ==
    IF s = <<>> THEN 0
    ELSE 10 * DigitsValue(SubSeq(s, 1, Len(s) - 1)) + DigitVal(s[Len(s)])

\* parseInt(s): an optional sign and the leading digits, NaN without digits
parseInt(s) ==
    LET neg == s # <<>> /\ Head(s) = "-"
        body == IF neg THEN Tail(s) ELSE s
        k == LeadingDigits(body)
    IN IF k = 0 THEN NaN
       ELSE Num((IF neg THEN -1 ELSE 1) * DigitsValue(SubSeq(body, 1, k)))

\* ToNumber of a string: the whole string must be a number, "" is 0
StringToNumber(s) ==
    LET neg == s # <<>> /\ Head(s) = "-"
        body == IF neg THEN Tail(s) ELSE s
    IN IF s = <<>> THEN Num(0)
       ELSE IF body # <<>> /\ LeadingDigits(body) = Len(body)
            THEN Num((IF neg THEN -1 ELSE 1) * DigitsValue(body))
            ELSE NaN

ToNumber(v) == IF v.t = "str" THEN StringToNumber(v.s) ELSE v

RECURSIVE NatToString(_)
NatToString(n) ==
    IF n < 10 THEN <<DigitChars[n + 1]>>
    ELSE NatToString(n \div 10) \o <<DigitChars[(n % 10) + 1]>>

\* String(v): the text of a value
StringOf(v) ==
    CASE v.t = "str" -> v.s
      [] v.t = "nan" -> <<"N", "a", "N">>
      [] OTHER -> IF v.n < 0 THEN <<"-">> \o NatToString(0 - v.n)
                  ELSE NatToString(v.n)

\* v < n, v <= n, v >= n for a number n: false when v is not a number
LessThan(v, n) == ToNumber(v).t = "num" /\ ToNumber(v).n < n
AtMost(v, n) == ToNumber(v).t = "num" /\ ToNumber(v).n <= n
AtLeast(v, n) == ToNumber(v).t = "num" /\ ToNumber(v).n >= n

\* v -= 1
MinusOne(v) == IF ToNumber(v).t = "num" THEN Num(ToNumber(v).n - 1) ELSE NaN

\* v += 1: a string is concatenated with "1"
PlusOne(v) ==
    CASE v.t = "str" -> Str(v.s \o <<"1">>)
      [] v.t = "nan" -> NaN
      [] OTHER -> Num(v.n + 1)

\* ------------------------------------------------------------------------
\* State
\* ------------------------------------------------------------------------
VARIABLES
    zone,       \* the host's time zone
    \* --- a call of one of the three utilities
    fn,         \* the utility called
    argMonth,   \* getCalendarDates: currentDate (the month argument)
    argYear,    \* getCalendarDates: currentYear
    argDate,    \* calculateWeekNum: date
    argLang,    \* getL10Weekday: userLang
    pc,         \* "call" before the utility has run, "done" after
    newDates,   \* result of getCalendarDates
    weekId,     \* result of calculateWeekNum
    newL10nDays, \* result of getL10Weekday
    threw       \* the call ended by an exception of the host

utilVars == <<fn, argMonth, argYear, argDate, argLang, pc, newDates, weekId,
              newL10nDays, threw>>

getTime(d) == getTimeIn(zone, d)

\* ------------------------------------------------------------------------
\* src/utils/getCalendarDates.ts
\* ------------------------------------------------------------------------
\* mutant: the loop stops before calendarEnd (i < calendarEnd)
RECURSIVE PushDatesExclusive(_, _, _, _)
PushDatesExclusive(z, i, calendarEnd, acc) ==
    IF getTimeIn(z, i) < getTimeIn(z, calendarEnd)
    THEN PushDatesExclusive(z, setDate(i, getDate(i) + 1), calendarEnd, Append(acc, i))
    ELSE acc

\* for (let i = calendarStart; i <= calendarEnd; i.setDate(i.getDate() + 1))
\* in the host's time zone z
RECURSIVE PushDates(_, _, _, _)
PushDates(z, i, calendarEnd, acc) ==
    IF getTimeIn(z, i) <= getTimeIn(z, calendarEnd)
    THEN PushDates(z, setDate(i, getDate(i) + 1), calendarEnd, Append(acc, i))
    ELSE acc

\* getCalendarDates, run in the host's time zone z: the steps of the
\* function in the order of the source, each taking the values of the
\* variables the step before it has set
ShiftedToSunday(calendarEnd) ==
    IF getDay(calendarEnd) # 0
    THEN setDate(calendarEnd, getDate(calendarEnd) + 7 - getDay(calendarEnd))
    ELSE calendarEnd

ShiftedToMonday(calendarStart, dayOfWeek) ==
    IF dayOfWeek # 1
    THEN setDate(calendarStart, getDate(calendarStart) - dayOfWeek + 1)
    ELSE calendarStart

CalendarStartOf(calendarStart) ==
    ShiftedToMonday(calendarStart,
        IF getDay(calendarStart) = 0 THEN 7 ELSE getDay(calendarStart))

GridOfBaseline(z, baselineDate) ==
    PushDates(z,
        CalendarStartOf(NewDate(getFullYear(baselineDate), getMonth(baselineDate), 1)),
        ShiftedToSunday(NewDate(getFullYear(baselineDate), getMonth(baselineDate) + 1, 0)),
        <<>>)

getCalendarDatesIn(z, currentDate, year) ==
    GridOfBaseline(z, NewDate(year, currentDate, 1))

\* the years the texts typed into a picker's year input lead to
TypedYears == {-5, 20, 2099}

\* the grids of the months 0..11 of the modelled years, computed once
CalendarYears == Years \cup TypedYears
CalendarTable ==
    [z \in Zones, m \in Months, y \in CalendarYears |-> getCalendarDatesIn(z, m, y)]

\* getCalendarDates in the time zone of the host
getCalendarDates(currentDate, currentYear) ==
    IF currentDate \in Months /\ currentYear \in CalendarYears
    THEN CalendarTable[zone, currentDate, currentYear]
    ELSE getCalendarDatesIn(zone, currentDate, currentYear)

\* ------------------------------------------------------------------------
\* src/utils/calculateWeekNum.ts
\* ------------------------------------------------------------------------
\* Math.ceil(a / b) for b > 0
CeilDiv(a, b) == 0 - ((0 - a) \div b)

\* mutant: Sunday stays 0, the first day of the week
DayNoRemap(d) == getDay(d)

\* date.getDay() || 7
DayOrSeven(d) == IF getDay(d) = 0 THEN 7 ELSE getDay(d)

\* calculateWeekNum, run in the host's time zone z
calculateWeekNumIn(z, date) ==
    LET midnight == setHoursZero(date)
        tempDate == setDate(midnight, getDate(midnight) + 4 - DayOrSeven(midnight))
        jan4 == NewDate(getFullYear(tempDate), 0, 4)
        forthDay == setDate(jan4, getDate(jan4) + 4 - DayOrSeven(jan4))
        diffInDays == (getTimeIn(z, tempDate) - getTimeIn(z, forthDay)) \div HoursPerDay
        weekNum == CeilDiv(diffInDays + 1, 7)
    IN [weekYear |-> getFullYear(tempDate), weekNum |-> weekNum]

\* calculateWeekNum in the time zone of the host
calculateWeekNum(date) == calculateWeekNumIn(zone, date)

\* ------------------------------------------------------------------------
\* src/utils/getL10Weekday.ts
\* ------------------------------------------------------------------------
\* locale strings handed to the host; the last two are no well-formed
\* language tags, "tlh-QQ" is well-formed but in no locale database
LocaleStrings == {"en-US", "de-DE", "fr-FR", "tlh-QQ", "en_US", ""}
WellFormedTags == {"en-US", "de-DE", "fr-FR", "tlh-QQ"}
SupportedLocales == {"en-US", "de-DE", "fr-FR"}
HostDefaultLocale == "en-US"

\* the host's narrow weekday names, indexed by getDay() + 1 (Sunday first)
NarrowWeekdayNames(locale) ==
    CASE locale = "de-DE" -> <<"S", "M", "D", "M", "D", "F", "S">>
      [] locale = "fr-FR" -> <<"D", "L", "M", "M", "J", "V", "S">>
      [] OTHER -> <<"S", "M", "T", "W", "T", "F", "S">>

\* the host throws a RangeError for a locale string that is no language tag
LocaleThrows(locales) == locales \notin WellFormedTags

\* an unsupported locale falls back to the host's default locale
ResolveLocale(locales) ==
    IF locales \in SupportedLocales THEN locales ELSE HostDefaultLocale

\* date.toLocaleDateString(locales, {weekday: "narrow"})
toLocaleDateString(date, locales) ==
    NarrowWeekdayNames(ResolveLocale(locales))[getDay(date) + 1]

\* mutant: the reference week starts on Sunday 2021-01-03
ReferenceDateSunday(i) == NewDate(2021, 0, i + 3)

\* the date the i-th label (i = 0..6) is formatted from
ReferenceDate(i) == NewDate(2021, 0, i + 4)

\* for (let i = 0; i < 7; i++) newL10nDays.push(...)
getL10Weekday(userLang) ==
    [k \in 1..7 |-> toLocaleDateString(ReferenceDate(k - 1), userLang)]

\* ------------------------------------------------------------------------
\* State of a picker component (SingleDatePicker or SingleWeekPicker)
\* ------------------------------------------------------------------------
VARIABLES
    kind,       \* "date" or "week": which component this is
    today,      \* new Date() of the host
    localization,   \* prop, "" when not given
    modelValue,     \* prop
    availableRange, \* prop (SingleDatePicker)
    mounted,        \* onMounted has run
    selectMonth,    \* ref: the month and year quick-select is shown
    currentMonth,   \* ref
    currentYear,    \* ref: a number, or the text typed into the year input
    l10nDays,       \* ref
    dates,          \* ref (SingleDatePicker)
    calendarWeeks,  \* ref (SingleWeekPicker)
    availableRangeStart, \* ref (SingleDatePicker)
    availableRangeEnd,   \* ref (SingleDatePicker)
    focus,          \* year input: "none", "clean" (focused), "dirty" (edited)
    emitted,        \* the event emitted by the last handler
    warned          \* the last range calculation or mount called console.warn

propVars == <<kind, today, localization, modelValue, availableRange>>
refVars == <<selectMonth, currentMonth, currentYear, l10nDays, dates,
             calendarWeeks, availableRangeStart, availableRangeEnd>>
pickerVars == <<propVars, refVars, mounted, focus, emitted, warned>>

\* ------------------------------------------------------------------------
\* src/components/SingleDatePicker.vue, src/components/SingleWeekPicker.vue:
\* values of the props and refs
\* ------------------------------------------------------------------------
\* Date | null
Null == [null |-> TRUE, d |-> NoDate]
Some(d) == [null |-> FALSE, d |-> d]

\* navigator.languages[0]
NavigatorLanguage == "en-US"

\* the localization prop: a well-formed language tag, or "" when not given
PropLocales == {"", "fr-FR"}

\* new Date() of the host
Todays == {[day |-> MakeDay(2025, 5, 15), hr |-> 13]}

NoModel == [given |-> FALSE, date |-> NoDate, weekYear |-> 0, weekNum |-> 0]
DateModel(d) == [given |-> TRUE, date |-> d, weekYear |-> 0, weekNum |-> 0]
WeekModel(wy, wn) == [given |-> TRUE, date |-> NoDate, weekYear |-> wy, weekNum |-> wn]

\* modelValue of SingleDatePicker: not given, or a Date
DateModels ==
    {NoModel, DateModel([day |-> MakeDay(2024, 1, 29), hr |-> 15])}

\* modelValue of SingleWeekPicker: not given, or {weekYear, weekNum} with
\* weekYear >= 0
WeekModels ==
    {NoModel, WeekModel(2025, 1), WeekModel(2020, 53), WeekModel(2025, 0),
     WeekModel(2025, 54), WeekModel(24, 10), WeekModel(100, 2),
     WeekModel(2021, 5)}

\* availableRange of SingleDatePicker: not given, or an array of Date | null
RangeA == Some([day |-> MakeDay(2025, 5, 10), hr |-> 0])
RangeB == Some([day |-> MakeDay(2025, 6, 20), hr |-> 0])
\* the last day of June and the first day of July
RangeC == Some([day |-> MakeDay(2025, 5, 30), hr |-> 0])
RangeD == Some([day |-> MakeDay(2025, 6, 1), hr |-> 0])
NoRange == [given |-> FALSE, items |-> <<>>]
RangeOf(items) == [given |-> TRUE, items |-> items]
RangeProps ==
    {NoRange, RangeOf(<<RangeA>>), RangeOf(<<RangeA, RangeB>>),
     RangeOf(<<RangeB, RangeA>>), RangeOf(<<RangeA, Null>>),
     RangeOf(<<Null, RangeB>>), RangeOf(<<Null, Null>>),
     RangeOf(<<RangeA, RangeB, RangeB>>), RangeOf(<<RangeC, RangeD>>)}

\* the texts typed into the year input
TypedTexts == {<<"2", "0", "2", "6">>, <<"9", "9">>, <<"-", "5">>, <<"a">>}

\* the longest text the year ref holds in the model
MaxTextLen == 2

NoEvent == [event |-> "none", date |-> NoDate, weekYear |-> 0, weekNum |-> 0]

\* the year steps of the model stay inside the last PickerSpan + 1 years of
\* the two windows of years
PickerSpan == 2
PickerYears ==
    ((SmallYearLast - PickerSpan)..SmallYearLast)
        \cup ((ModernYearLast - PickerSpan)..ModernYearLast)

InModel(v) ==
    CASE v.t = "num" -> v.n \in PickerYears
      [] v.t = "str" -> Len(v.s) <= MaxTextLen
      [] OTHER -> TRUE

\* ------------------------------------------------------------------------
\* functions of the components
\* ------------------------------------------------------------------------
\* getCalendarDates called with the refs: a year that is no number gives an
\* Invalid Date, every comparison with it is false and the grid is empty
GridOf(month, year) ==
    IF ToNumber(year).t = "num"
    THEN getCalendarDates(month, ToNumber(year).n)
    ELSE <<>>

\* for (let i = 0; i < dates.length; i += 7) weeks.push(dates.slice(i, i + 7))
WeeksOf(ds) ==
    [k \in 1..CeilDiv(Len(ds), 7) |->
        SubSeq(ds, 7 * (k - 1) + 1, IF 7 * k < Len(ds) THEN 7 * k ELSE Len(ds))]

\* getL10Weekday(localization?.value || navigator.languages[0])
MountLocale == IF localization = "" THEN NavigatorLanguage ELSE localization

\* mutant: no check of the array length, the first two elements are used
calculateAvailableRangeNoLength(range) ==
    IF ~range.given \/ Len(range.items) < 2
    THEN [start |-> Null, end |-> Null, warn |-> FALSE]
    ELSE [start |-> range.items[1], end |-> range.items[2], warn |-> FALSE]

\* mutant: the two elements are stored in the order they are given
calculateAvailableRangeNoSwap(range) ==
    IF ~range.given
    THEN [start |-> Null, end |-> Null, warn |-> FALSE]
    ELSE IF Len(range.items) # 2
    THEN [start |-> Null, end |-> Null, warn |-> TRUE]
    ELSE [start |-> range.items[1], end |-> range.items[2], warn |-> FALSE]

\* the bounds calculateAvailableRange stores for props.availableRange, and
\* whether it warns
calculateAvailableRange(range) ==
    IF ~range.given
    THEN [start |-> Null, end |-> Null, warn |-> FALSE]
    ELSE IF Len(range.items) # 2
    THEN [start |-> Null, end |-> Null, warn |-> TRUE]
    ELSE LET start == range.items[1]
             end == range.items[2]
         IN IF ~start.null /\ ~end.null
            THEN IF getTime(start.d) > getTime(end.d)
                 THEN [start |-> end, end |-> start, warn |-> FALSE]
                 ELSE [start |-> start, end |-> end, warn |-> FALSE]
            ELSE IF ~start.null /\ end.null
            THEN [start |-> start, end |-> Null, warn |-> FALSE]
            ELSE IF start.null /\ ~end.null
            THEN [start |-> Null, end |-> end, warn |-> FALSE]
            ELSE [start |-> Null, end |-> Null, warn |-> FALSE]

\* mutant: the bounds themselves are disabled too
notAvailableExclusive(date) ==
    \/ currentMonth # getMonth(date)
    \/ (~availableRangeStart.null /\ getTime(date) <= getTime(availableRangeStart.d))
    \/ (~availableRangeEnd.null /\ getTime(date) >= getTime(availableRangeEnd.d))

notAvailable(date) ==
    \/ currentMonth # getMonth(date)
    \/ (~availableRangeStart.null /\ getTime(date) < getTime(availableRangeStart.d))
    \/ (~availableRangeEnd.null /\ getTime(date) > getTime(availableRangeEnd.d))

\* mutant: a month that only touches a bound is disabled
monthNotAvailableExclusive(month) ==
    LET year == ToNumber(currentYear)
        lastDayOfMonth == NewDate(year.n, month + 1, 0)
        firstDayOfMonth == NewDate(year.n, month, 1)
    IN /\ year.t = "num"
       /\ \/ (~availableRangeStart.null
                /\ getTime(lastDayOfMonth) <= getTime(availableRangeStart.d))
          \/ (~availableRangeEnd.null
                /\ getTime(firstDayOfMonth) >= getTime(availableRangeEnd.d))

monthNotAvailable(month) ==
    LET year == ToNumber(currentYear)
        lastDayOfMonth == NewDate(year.n, month + 1, 0)
        firstDayOfMonth == NewDate(year.n, month, 1)
    IN /\ year.t = "num"
       /\ \/ (~availableRangeStart.null
                /\ getTime(lastDayOfMonth) < getTime(availableRangeStart.d))
          \/ (~availableRangeEnd.null
                /\ getTime(firstDayOfMonth) > getTime(availableRangeEnd.d))

\* mutant: the watcher watches currentMonth only
WatchMonthOnly(old, new) == old[1] # new[1]

\* watch([currentMonth, currentYear], ...): the callback runs when one of
\* the watched values has changed
WatchSourcesChanged(old, new) == old # new

\* the component after setup(): the refs hold their initial values
SetupRefs ==
    /\ mounted = FALSE
    /\ selectMonth = FALSE
    /\ currentMonth = getMonth(today)
    /\ currentYear = Num(getFullYear(today))
    /\ l10nDays = <<>>
    /\ dates = <<>>
    /\ calendarWeeks = <<>>
    /\ availableRangeStart = Null
    /\ availableRangeEnd = Null
    /\ focus = "none"
    /\ emitted = NoEvent
    /\ warned = FALSE

\* no component: the utilities are called on their own
NoPicker ==
    /\ kind = "none"
    /\ today \in Todays
    /\ localization = ""
    /\ modelValue = NoModel
    /\ availableRange = NoRange
    /\ SetupRefs

\* ------------------------------------------------------------------------
\* Calls of the utilities
\* ------------------------------------------------------------------------
\* the Date values calculateWeekNum is called with: every day of the
\* modelled years, at two times of day
DayHours == {0, 13}
DaysOfYears == UNION {DayFromYear(y)..(DayFromYear(y + 1) - 1) : y \in Years}
DateArgs == {[day |-> d, hr |-> h] : d \in DaysOfYears, h \in DayHours}


InitUtil ==
    /\ zone \in Zones
    /\ pc = "call"
    /\ newDates = <<>>
    /\ weekId = NoWeek
    /\ newL10nDays = <<>>
    /\ threw = FALSE
    /\ NoPicker
    /\ \/ /\ fn = "getCalendarDates"
          /\ argMonth \in MonthArgs
          /\ argYear \in Years
          /\ argDate = NoDate
          /\ argLang = ""
       \/ /\ fn = "calculateWeekNum"
          /\ argMonth = 0
          /\ argYear = 0
          /\ argDate \in DateArgs
          /\ argLang = ""
       \/ /\ fn = "getL10Weekday"
          /\ argMonth = 0
          /\ argYear = 0
          /\ argDate = NoDate
          /\ argLang \in LocaleStrings

CallGetCalendarDates ==
    /\ pc = "call"
    /\ fn = "getCalendarDates"
    /\ newDates' = getCalendarDates(argMonth, argYear)
    /\ pc' = "done"
    /\ UNCHANGED <<zone, fn, argMonth, argYear, argDate, argLang, weekId,
                   newL10nDays, threw, pickerVars>>

CallCalculateWeekNum ==
    /\ pc = "call"
    /\ fn = "calculateWeekNum"
    /\ weekId' = calculateWeekNum(argDate)
    /\ pc' = "done"
    /\ UNCHANGED <<zone, fn, argMonth, argYear, argDate, argLang, newDates,
                   newL10nDays, threw, pickerVars>>

CallGetL10Weekday ==
    /\ pc = "call"
    /\ fn = "getL10Weekday"
    /\ IF LocaleThrows(argLang)
       THEN threw' = TRUE /\ newL10nDays' = <<>>
       ELSE threw' = FALSE /\ newL10nDays' = getL10Weekday(argLang)
    /\ pc' = "done"
    /\ UNCHANGED <<zone, fn, argMonth, argYear, argDate, argLang, newDates,
                   weekId, pickerVars>>

NextUtil ==
    \/ CallGetCalendarDates
    \/ CallCalculateWeekNum
    \/ CallGetL10Weekday

vars == <<zone, utilVars, pickerVars>>

SpecUtil == InitUtil /\ [][NextUtil]_vars

\* ------------------------------------------------------------------------
\* The picker components: lifecycle, watchers and event handlers
\* ------------------------------------------------------------------------
NoCall ==
    /\ fn = "none"
    /\ argMonth = 0
    /\ argYear = 0
    /\ argDate = NoDate
    /\ argLang = ""
    /\ pc = "done"
    /\ newDates = <<>>
    /\ weekId = NoWeek
    /\ newL10nDays = <<>>
    /\ threw = FALSE

\* the time zones a component is run in
PickerZones == {"fixed", "north"}

Init ==
    /\ zone \in PickerZones
    /\ NoCall
    /\ today \in Todays
    /\ localization \in PropLocales
    /\ \/ /\ kind = "date"
          /\ modelValue \in DateModels
          /\ availableRange \in RangeProps
       \/ /\ kind = "week"
          /\ modelValue \in WeekModels
          /\ availableRange = NoRange
    /\ SetupRefs

\* the grid ref of the component is set from a month and a year
SetGridTo(grid) ==
    /\ dates' = IF kind = "date" THEN grid ELSE dates
    /\ calendarWeeks' = IF kind = "week" THEN WeeksOf(grid) ELSE calendarWeeks

SetGrid(month, year) == SetGridTo(GridOf(month, year))

\* parseInt(`20${currentYear}`)
TwentyPrefixed(v) == parseInt(<<"2", "0">> \o StringOf(v))

\* mutant: the month and year are derived from any weekNum, without warning
MountTargetNoCheck ==
    IF ~modelValue.given
    THEN [month |-> getMonth(today), year |-> Num(getFullYear(today)), warn |-> FALSE]
    ELSE IF kind = "date"
    THEN [month |-> getMonth(modelValue.date),
          year |-> Num(getFullYear(modelValue.date)), warn |-> FALSE]
    ELSE LET weekYear == IF modelValue.weekYear < 100
                         THEN StringToNumber(<<"2", "0">> \o StringOf(Num(modelValue.weekYear))).n
                         ELSE modelValue.weekYear
             jan1 == NewDate(weekYear, 0, 1)
             date == setDate(jan1, getDate(jan1) + (modelValue.weekNum - 1) * 7)
         IN [month |-> getMonth(date), year |-> Num(getFullYear(date)),
             warn |-> FALSE]

\* the month and year onMounted derives from modelValue
MountTarget ==
    IF ~modelValue.given
    THEN [month |-> getMonth(today), year |-> Num(getFullYear(today)), warn |-> FALSE]
    ELSE IF kind = "date"
    THEN [month |-> getMonth(modelValue.date),
          year |-> Num(getFullYear(modelValue.date)), warn |-> FALSE]
    ELSE LET weekYear == IF modelValue.weekYear < 100
                         THEN StringToNumber(<<"2", "0">> \o StringOf(Num(modelValue.weekYear))).n
                         ELSE modelValue.weekYear
             weekNum == modelValue.weekNum
             jan1 == NewDate(weekYear, 0, 1)
             date == setDate(jan1, getDate(jan1) + (weekNum - 1) * 7)
         IN IF weekNum < 1 \/ weekNum > 53
            THEN [month |-> currentMonth, year |-> currentYear, warn |-> TRUE]
            ELSE [month |-> getMonth(date), year |-> Num(getFullYear(date)),
                  warn |-> FALSE]

\* onMounted; the watcher job a change of currentMonth or currentYear queues
\* runs right after it and sets the same grid again
Mount ==
    /\ ~mounted
    /\ mounted' = TRUE
    /\ l10nDays' = getL10Weekday(MountLocale)
    /\ currentMonth' = MountTarget.month
    /\ currentYear' = MountTarget.year
    /\ SetGrid(MountTarget.month, MountTarget.year)
    /\ IF kind = "date"
       THEN /\ availableRangeStart' = calculateAvailableRange(availableRange).start
            /\ availableRangeEnd' = calculateAvailableRange(availableRange).end
            /\ warned' = calculateAvailableRange(availableRange).warn
       ELSE /\ warned' = MountTarget.warn
            /\ UNCHANGED <<availableRangeStart, availableRangeEnd>>
    /\ UNCHANGED <<zone, utilVars, propVars, selectMonth, focus, emitted>>

\* a click comes after the year input has lost the focus
Clickable == mounted /\ focus = "none"

\* a handler sets currentMonth and currentYear; the job of
\* watch([currentMonth, currentYear], ...) runs before the next event
SetMonthYear(month, year) ==
    /\ currentMonth' = month
    /\ currentYear' = year
    /\ IF WatchSourcesChanged(<<currentMonth, currentYear>>, <<month, year>>)
       THEN SetGrid(month, year)
       ELSE UNCHANGED <<dates, calendarWeeks>>
    /\ emitted' = NoEvent
    /\ UNCHANGED <<zone, utilVars, propVars, mounted, l10nDays,
                   availableRangeStart, availableRangeEnd, warned>>

\* mutant: the step from January goes to December of the same year
goToLastMonthSameYear ==
    /\ Clickable
    /\ ~selectMonth
    /\ IF currentMonth = 0
       THEN /\ InModel(MinusOne(currentYear))
            /\ SetMonthYear(11, currentYear)
       ELSE SetMonthYear(currentMonth - 1, currentYear)
    /\ UNCHANGED <<selectMonth, focus>>

goToLastMonth ==
    /\ Clickable
    /\ ~selectMonth
    /\ IF currentMonth = 0
       THEN /\ InModel(MinusOne(currentYear))
            /\ SetMonthYear(11, MinusOne(currentYear))
       ELSE SetMonthYear(currentMonth - 1, currentYear)
    /\ UNCHANGED <<selectMonth, focus>>

goToNextMonth ==
    /\ Clickable
    /\ ~selectMonth
    /\ IF currentMonth = 11
       THEN /\ InModel(PlusOne(currentYear))
            /\ SetMonthYear(0, PlusOne(currentYear))
       ELSE SetMonthYear(currentMonth + 1, currentYear)
    /\ UNCHANGED <<selectMonth, focus>>

\* click on the indicator: selectMonth = true
OpenMonthSelect ==
    /\ Clickable
    /\ ~selectMonth
    /\ selectMonth' = TRUE
    /\ emitted' = NoEvent
    /\ UNCHANGED <<zone, utilVars, propVars, mounted, currentMonth, currentYear,
                   l10nDays, dates, calendarWeeks, availableRangeStart,
                   availableRangeEnd, focus, warned>>

\* click on a month of the quick-select: currentMonth = index
SelectMonthIndex ==
    /\ Clickable
    /\ selectMonth
    /\ \E index \in Months :
        /\ kind = "date" => ~monthNotAvailable(index)
        /\ SetMonthYear(index, currentYear)
    /\ selectMonth' = FALSE
    /\ UNCHANGED focus

\* click on the last-year stepper
GoToLastYear ==
    /\ Clickable
    /\ selectMonth
    /\ ~AtMost(currentYear, 100)
    /\ InModel(MinusOne(currentYear))
    /\ SetMonthYear(currentMonth, MinusOne(currentYear))
    /\ UNCHANGED <<selectMonth, focus>>

\* click on the next-year stepper
GoToNextYear ==
    /\ Clickable
    /\ selectMonth
    /\ ~AtLeast(currentYear, 9999)
    /\ InModel(PlusOne(currentYear))
    /\ SetMonthYear(currentMonth, PlusOne(currentYear))
    /\ UNCHANGED <<selectMonth, focus>>

\* the year input takes the focus
FocusYear ==
    /\ Clickable
    /\ selectMonth
    /\ focus' = "clean"
    /\ emitted' = NoEvent
    /\ UNCHANGED <<zone, utilVars, propVars, mounted, selectMonth, currentMonth,
                   currentYear, l10nDays, dates, calendarWeeks,
                   availableRangeStart, availableRangeEnd, warned>>

\* input event of the year input: v-model stores the typed text
InputYear ==
    /\ mounted
    /\ selectMonth
    /\ focus # "none"
    /\ \E text \in TypedTexts :
        SetMonthYear(currentMonth, Str(text))
    /\ focus' = "dirty"
    /\ UNCHANGED selectMonth

\* change event of the year input
changeYear ==
    /\ mounted
    /\ focus = "dirty"
    /\ LET year == parseInt(StringOf(currentYear))
       IN IF year.t = "num" /\ year.n # 0
          THEN SetMonthYear(currentMonth, year)
          ELSE SetMonthYear(currentMonth, currentYear)
    /\ focus' = "clean"
    /\ UNCHANGED selectMonth

\* blur event of the year input
adjustYear ==
    /\ mounted
    /\ focus = "clean"
    /\ IF LessThan(currentYear, 100)
       THEN SetMonthYear(currentMonth, TwentyPrefixed(currentYear))
       ELSE SetMonthYear(currentMonth, currentYear)
    /\ focus' = "none"
    /\ UNCHANGED selectMonth

\* emit('update:modelValue', ...)
Emit(event) ==
    /\ emitted' = event
    /\ UNCHANGED <<zone, utilVars, propVars, refVars, mounted, focus, warned>>

\* the clicks of the model: on these cells of the grid
ClickedCells == {7, 29}

\* click on a date that is not disabled
selectDate ==
    /\ Clickable
    /\ kind = "date"
    /\ ~selectMonth
    /\ \E k \in ClickedCells \cap DOMAIN dates :
        /\ ~notAvailable(dates[k])
        /\ Emit([event |-> "update:modelValue", date |-> dates[k],
              weekYear |-> 0, weekNum |-> 0])

\* click on a week row
selectWeek ==
    /\ Clickable
    /\ kind = "week"
    /\ ~selectMonth
    /\ \E k \in DOMAIN calendarWeeks :
        LET id == calculateWeekNum(calendarWeeks[k][1])
        IN Emit([event |-> "update:modelValue", date |-> NoDate,
                 weekYear |-> id.weekYear, weekNum |-> id.weekNum])

\* the parent changes the localization prop; no watcher of the component
\* has it as a source
ChangeLocalization ==
    /\ mounted
    /\ \E l \in PropLocales :
        /\ l # localization
        /\ localization' = l
    /\ emitted' = NoEvent
    /\ UNCHANGED <<zone, utilVars, kind, today, modelValue, availableRange,
                   refVars, mounted, focus, warned>>

\* the parent changes the availableRange prop; the job of
\* watch([availableRange], ...) runs before the next event
ChangeAvailableRange ==
    /\ mounted
    /\ kind = "date"
    /\ \E r \in RangeProps :
        /\ r # availableRange
        /\ availableRange' = r
        /\ availableRangeStart' = calculateAvailableRange(r).start
        /\ availableRangeEnd' = calculateAvailableRange(r).end
        /\ warned' = calculateAvailableRange(r).warn
    /\ emitted' = NoEvent
    /\ UNCHANGED <<zone, utilVars, kind, today, localization, modelValue,
                   selectMonth, currentMonth, currentYear, l10nDays, dates,
                   calendarWeeks, mounted, focus>>

Next ==
    \/ Mount
    \/ goToLastMonth
    \/ goToNextMonth
    \/ OpenMonthSelect
    \/ SelectMonthIndex
    \/ GoToLastYear
    \/ GoToNextYear
    \/ FocusYear
    \/ InputYear
    \/ changeYear
    \/ adjustYear
    \/ selectDate
    \/ selectWeek
    \/ ChangeLocalization
    \/ ChangeAvailableRange

Spec == Init /\ [][Next]_vars

\* ------------------------------------------------------------------------
\* Calendar facts the claims are stated against
\* ------------------------------------------------------------------------
\* the day numbers of the calendar month (month 0..11) of a year
MonthDays(year, month) ==
    {DayFromYear(year) + DaysBeforeMonth(year, month) + d - 1 :
        d \in 1..DaysInMonth(year, month)}

\* the calendar year a day number lies in
YearOfDay(day) ==
    CHOOSE y \in (SmallYearFirst - 2)..(ModernYearLast + 2) :
        DayFromYear(y) <= day /\ day < DayFromYear(y + 1)

\* Monday of the Monday-to-Sunday week of a day number
MondayOf(day) == day - ((day + 3) % 7)

\* the ISO-8601 week of a day number
IsoWeek(day) ==
    LET thursday == MondayOf(day) + 3
        wy == YearOfDay(thursday)
        week1Monday == MondayOf(DayFromYear(wy) + 3)
    IN [weekYear |-> wy, weekNum |-> ((thursday - week1Monday) \div 7) + 1]

GridDone == pc = "done" /\ fn = "getCalendarDates"
WeekDone == pc = "done" /\ fn = "calculateWeekNum"
L10nDone == pc = "done" /\ fn = "getL10Weekday"

Occurrences(seq, day) == Cardinality({k \in DOMAIN seq : seq[k].day = day})

\* C1: for every month in 0..11 and every year, the years 0..99 included,
\* the grid of getCalendarDates(month, year) holds every day of that month
\* of that year exactly once.
C1_GridCoversMonth ==
    (GridDone /\ argMonth \in Months) =>
        \A d \in MonthDays(argYear, argMonth) : Occurrences(newDates, d) = 1

\* C2: the grid is made of whole Monday-to-Sunday weeks: its length is a
\* multiple of 7, its first element is a Monday, its last a Sunday (and the
\* k-th element falls on weekday k mod 7).
C2_WholeWeeks ==
    GridDone =>
        /\ Len(newDates) > 0
        /\ Len(newDates) % 7 = 0
        /\ getDay(newDates[1]) = 1
        /\ getDay(newDates[Len(newDates)]) = 0
        /\ \A k \in DOMAIN newDates : getDay(newDates[k]) = k % 7

C2_Witness ==
    /\ GridDone
    /\ argMonth = 0
    /\ argYear = 2025
    /\ Len(newDates) = 35

\* C3: for every date d, calculateWeekNum(d) is the ISO-8601 week of d.
C3_IsIsoWeek == WeekDone => weekId = IsoWeek(argDate.day)

\* C4: for every date d, the weekNum of calculateWeekNum(d) is in 1..53.
C4_WeekNumInRange == WeekDone => weekId.weekNum \in 1..53

\* C5: 2021-01-04 is week 1 of 2021, 2020-12-31 is week 53 of 2020,
\* 2023-01-01 is week 52 of 2022.
C5_YearBoundaries ==
    WeekDone =>
        /\ argDate.day = MakeDay(2021, 0, 4) =>
               weekId = [weekYear |-> 2021, weekNum |-> 1]
        /\ argDate.day = MakeDay(2020, 11, 31) =>
               weekId = [weekYear |-> 2020, weekNum |-> 53]
        /\ argDate.day = MakeDay(2023, 0, 1) =>
               weekId = [weekYear |-> 2022, weekNum |-> 52]

C5_Witness ==
    /\ WeekDone
    /\ argDate.day = MakeDay(2023, 0, 1)
    /\ zone = "north"
    /\ weekId.weekYear = 2022

\* the labels are those of Monday, Tuesday, .., Sunday in the resolved locale
MondayFirstLabels(lang) ==
    [k \in 1..7 |-> NarrowWeekdayNames(ResolveLocale(lang))[(k % 7) + 1]]

\* C6 (as stated): getL10Weekday returns exactly 7 labels for any locale
\* string, the i-th made from a date whose weekday is Monday + i.
C6_SevenLabelsAnyString ==
    L10nDone =>
        /\ Len(newL10nDays) = 7
        /\ newL10nDays = MondayFirstLabels(argLang)

\* C6 (amended): for any well-formed language tag, getL10Weekday returns
\* exactly 7 labels, the i-th made from a date whose weekday is Monday + i;
\* for a string that is no language tag the host throws and nothing is
\* returned.
C6_SevenLabelsWellFormed ==
    L10nDone =>
        /\ argLang \in WellFormedTags =>
               /\ ~threw
               /\ Len(newL10nDays) = 7
               /\ newL10nDays = MondayFirstLabels(argLang)
               /\ \A i \in 0..6 : getDay(ReferenceDate(i)) = (1 + i) % 7
        /\ argLang \notin WellFormedTags => threw

C6_Witness ==
    /\ L10nDone
    /\ argLang = "fr-FR"
    /\ newL10nDays = <<"L", "M", "M", "J", "V", "S", "D">>

\* C7: for a month argument m outside 0..11, getCalendarDates(m, year) is the
\* grid of getCalendarDates(m mod 12, year + floor(m / 12)).
C7_MonthOverflow ==
    (GridDone /\ argMonth \notin Months) =>
        newDates = getCalendarDates(argMonth % 12, argYear + (argMonth \div 12))

\* the grid a mounted picker displays
DisplayedGrid == IF kind = "date" THEN dates ELSE calendarWeeks

\* the grid of the current month and year, in the form the picker holds it
CurrentGrid ==
    IF kind = "date"
    THEN GridOf(currentMonth, currentYear)
    ELSE WeeksOf(GridOf(currentMonth, currentYear))

\* C8: in both pickers, after mount and after every handler that changes
\* the displayed month or year (previous/next month, previous/next year,
\* month quick-select, typed year) has been processed, the displayed grid
\* is getCalendarDates(currentMonth, currentYear) of the current values.
C8_GridNeverStale == mounted => DisplayedGrid = CurrentGrid

\* "99" has been typed into the year input of a date picker and the input
\* has lost the focus: the year is 2099 and its grid is displayed
C8_Witness ==
    /\ mounted
    /\ kind = "date"
    /\ focus = "none"
    /\ currentYear = Num(2099)
    /\ Len(dates) >= 28
    /\ dates = GridOf(currentMonth, currentYear)

\* C9: whenever the localization prop of a mounted picker has changed, the
\* weekday header labels are those of getL10Weekday for the new locale.
C9_LabelsFollowLocale == mounted => l10nDays = getL10Weekday(MountLocale)

\* C10: in SingleDatePicker, while availableRange is given with a length
\* other than 2, both range bounds are null, whatever they were before, a
\* date is disabled only for lying outside the current month, and no month
\* is disabled.
C10_BadLengthIgnored ==
    (mounted /\ kind = "date" /\ availableRange.given
        /\ Len(availableRange.items) # 2) =>
        /\ availableRangeStart = Null
        /\ availableRangeEnd = Null
        /\ \A k \in DOMAIN dates :
               notAvailable(dates[k]) <=> currentMonth # getMonth(dates[k])
        /\ \A m \in Months : ~monthNotAvailable(m)

\* June 2025 is displayed and the range has three elements, the first two
\* of which would disable the days before June 10th
C10_Witness ==
    /\ mounted
    /\ kind = "date"
    /\ availableRange = RangeOf(<<RangeA, RangeB, RangeB>>)
    /\ warned
    /\ currentMonth = 5
    /\ currentYear = Num(2025)
    /\ Len(dates) = 42
    /\ availableRangeStart = Null

\* the run of consecutive local midnights from day first to day last
DayRun(first, last) ==
    [k \in 1..(last - first + 1) |-> [day |-> first + k - 1, hr |-> 0]]

\* the grid of a calendar month: from the Monday on or before its 1st to
\* the Sunday on or after its last day
MonthGrid(year, month) ==
    LET first == DayFromYear(year) + DaysBeforeMonth(year, month)
        last == first + DaysInMonth(year, month) - 1
    IN DayRun(MondayOf(first), MondayOf(last) + 6)

\* C11: for every month in 0..11 and every year, getCalendarDates returns
\* exactly the consecutive days, ascending with a step of one day, from the
\* Monday on or before the 1st of the month to the Sunday on or after its
\* last day; for January 2025 this is 2024-12-30 .. 2025-02-02, 35 dates.
C11_ConsecutiveRun ==
    (GridDone /\ argMonth \in Months) =>
        /\ newDates = MonthGrid(argYear, argMonth)
        /\ (argYear = 2025 /\ argMonth = 0) =>
               /\ Len(newDates) = 35
               /\ newDates[1].day = MakeDay(2024, 11, 30)
               /\ newDates[35].day = MakeDay(2025, 1, 2)

\* the Date on the calendar day n days after d, at the same time of day
DaysAfter(d, n) == [day |-> d.day + n, hr |-> d.hr]

\* C12: calculateWeekNum treats Sunday as the last day of the week: for
\* every Monday m the seven dates m, m+1, .., m+6 get the same
\* (weekYear, weekNum), and m+7 gets a different one.
C12_MondayToSunday ==
    (WeekDone /\ getDay(argDate) = 1) =>
        /\ \A n \in 0..6 : calculateWeekNum(DaysAfter(argDate, n)) = weekId
        /\ calculateWeekNum(DaysAfter(argDate, 7)) # weekId

\* a Date lies before another one on the local time line
Before(a, b) == a.day < b.day \/ (a.day = b.day /\ a.hr < b.hr)

\* C13: in SingleDatePicker, with a two-element availableRange: if both
\* bounds are given, the stored bounds are the two given dates with
\* availableRangeStart <= availableRangeEnd (swapped when given in reverse
\* order); if one bound is given, it is stored and the other is null; if
\* none is given, both are null.
C13_TwoElementRange ==
    (mounted /\ kind = "date" /\ availableRange.given
        /\ Len(availableRange.items) = 2) =>
        LET first == availableRange.items[1]
            second == availableRange.items[2]
        IN /\ (~first.null /\ ~second.null) =>
                  /\ ~availableRangeStart.null
                  /\ ~availableRangeEnd.null
                  /\ ~Before(availableRangeEnd.d, availableRangeStart.d)
                  /\ {availableRangeStart, availableRangeEnd} = {first, second}
           /\ (~first.null /\ second.null) =>
                  availableRangeStart = first /\ availableRangeEnd = Null
           /\ (first.null /\ ~second.null) =>
                  availableRangeStart = Null /\ availableRangeEnd = second
           /\ (first.null /\ second.null) =>
                  availableRangeStart = Null /\ availableRangeEnd = Null

\* the range was given in reverse order and is stored swapped
C13_Witness ==
    /\ mounted
    /\ kind = "date"
    /\ availableRange = RangeOf(<<RangeB, RangeA>>)
    /\ availableRangeStart = RangeA
    /\ availableRangeEnd = RangeB

\* the first and the last day of the month a date picker displays: the
\* second row of the grid always lies in it
DisplayedMonth ==
    LET year == getFullYear(dates[8])
        month == getMonth(dates[8])
        first == DayFromYear(year) + DaysBeforeMonth(year, month)
    IN [first |-> first, last |-> first + DaysInMonth(year, month) - 1]

InMonth(span, date) == span.first <= date.day /\ date.day <= span.last

\* the disabled state of a grid date, by the calendar
DisabledIn(span, date) ==
    \/ ~InMonth(span, date)
    \/ (~availableRangeStart.null /\ Before(date, availableRangeStart.d))
    \/ (~availableRangeEnd.null /\ Before(availableRangeEnd.d, date))

DisabledExactlyIn(span) ==
    \A k \in DOMAIN dates :
        /\ notAvailable(dates[k]) <=> DisabledIn(span, dates[k])
        /\ (InMonth(span, dates[k])
               /\ Some(dates[k]) \in {availableRangeStart, availableRangeEnd})
               => ~notAvailable(dates[k])

\* C14: in SingleDatePicker a grid date is disabled exactly when it lies
\* outside the displayed month, or a range start is set and the date is
\* before it, or a range end is set and the date is after it; a date of
\* the displayed month equal to the range start or end stays selectable.
C14_DisabledExactly ==
    (mounted /\ kind = "date" /\ Len(dates) >= 8) =>
        DisabledExactlyIn(DisplayedMonth)

\* June 2025 with the range June 10th .. July 20th: June 10th is
\* selectable, June 9th is disabled
C14_Witness ==
    /\ mounted
    /\ kind = "date"
    /\ currentMonth = 5
    /\ currentYear = Num(2025)
    /\ availableRangeStart = RangeA
    /\ availableRangeEnd = RangeB
    /\ \E k \in DOMAIN dates :
           /\ k > 1
           /\ dates[k] = RangeA.d
           /\ ~notAvailable(dates[k])
           /\ notAvailable(dates[k - 1])
           /\ getMonth(dates[k - 1]) = currentMonth

\* the first and the last day of a month of the year the quick-select
\* displays for the number n
MonthSpan(n, month) ==
    LET first == DayFromYear(MakeFullYear(n)) + DaysBeforeMonth(MakeFullYear(n), month)
    IN [first |-> first, last |-> first + DaysInMonth(MakeFullYear(n), month) - 1]

\* the day-level range test: the day is before a set start or after a set end
DayOutOfRange(day) ==
    \/ (~availableRangeStart.null /\ day < availableRangeStart.d.day)
    \/ (~availableRangeEnd.null /\ day > availableRangeEnd.d.day)

NoDayInRange(span) == \A day \in span.first..span.last : DayOutOfRange(day)

\* C15: in SingleDatePicker, for every month index 0..11 of the displayed
\* year and every available range with bounds at midnight, the month
\* button of the quick-select is disabled if and only if no day of that
\* month lies within the available range.
C15_MonthDisabledIffNoDay ==
    (mounted /\ kind = "date" /\ selectMonth /\ ToNumber(currentYear).t = "num") =>
        \A month \in Months :
            monthNotAvailable(month)
                <=> NoDayInRange(MonthSpan(ToNumber(currentYear).n, month))

\* the quick-select of 2025 with the range June 30th .. July 1st: June and
\* July are enabled, May and August are disabled
C15_Witness ==
    /\ mounted
    /\ kind = "date"
    /\ selectMonth
    /\ currentYear = Num(2025)
    /\ availableRangeStart = RangeC
    /\ availableRangeEnd = RangeD
    /\ ~monthNotAvailable(5)
    /\ ~monthNotAvailable(6)
    /\ monthNotAvailable(4)
    /\ monthNotAvailable(7)

\* the month after and the month before a month of a year, by the calendar
NextMonthOf(month, n) ==
    IF month = 11 THEN <<0, Num(n + 1)>> ELSE <<month + 1, Num(n)>>
LastMonthOf(month, n) ==
    IF month = 0 THEN <<11, Num(n - 1)>> ELSE <<month - 1, Num(n)>>

\* a step of goToNextMonth from a numeric year: the year changes only on
\* the step from December, and goToLastMonth leads back
NextMonthStep ==
    /\ <<currentMonth', currentYear'>> = NextMonthOf(currentMonth, currentYear.n)
    /\ currentYear' # currentYear =>
           /\ currentMonth = 11
           /\ currentMonth' = 0
           /\ currentYear' = Num(currentYear.n + 1)
    /\ LastMonthOf(currentMonth', currentYear'.n) = <<currentMonth, currentYear>>

\* a step of goToLastMonth from a numeric year: the year changes only on
\* the step from January, and goToNextMonth leads back
LastMonthStep ==
    /\ <<currentMonth', currentYear'>> = LastMonthOf(currentMonth, currentYear.n)
    /\ currentYear' # currentYear =>
           /\ currentMonth = 0
           /\ currentMonth' = 11
           /\ currentYear' = Num(currentYear.n - 1)
    /\ NextMonthOf(currentMonth', currentYear'.n) = <<currentMonth, currentYear>>

\* C16: in both pickers, with a year that is a number (no text typed),
\* currentMonth stays in 0..11 after every step; goToNextMonth changes the
\* year only on the step from December (to January of year + 1),
\* goToLastMonth only on the step from January (to December of year - 1),
\* and each of the two leads back from where the other has led.
C16_MonthStepping ==
    [][/\ currentMonth' \in Months
       /\ (goToNextMonth /\ currentYear.t = "num") => NextMonthStep
       /\ (goToLastMonth /\ currentYear.t = "num") => LastMonthStep]_vars

\* December 2024 is displayed by a picker that was mounted in June 2025
\* without a modelValue
C16_Witness ==
    /\ mounted
    /\ ~modelValue.given
    /\ ~selectMonth
    /\ focus = "none"
    /\ currentMonth = 11
    /\ currentYear = Num(2024)
    /\ DisplayedGrid = CurrentGrid

\* the step of onMounted of a week picker whose modelValue has a weekNum
\* below 1 or above 53
MountWithInvalidWeekNum ==
    /\ ~mounted
    /\ mounted'
    /\ kind = "week"
    /\ modelValue.given
    /\ (modelValue.weekNum < 1 \/ modelValue.weekNum > 53)

\* C17: when SingleWeekPicker is mounted with a modelValue whose weekNum is
\* below 1 or above 53, it warns, derives no month from the value and
\* displays the grid of today's month and year.
C17_InvalidWeekNumAtMount ==
    [][MountWithInvalidWeekNum =>
          /\ warned'
          /\ currentMonth' = getMonth(today)
          /\ currentYear' = Num(getFullYear(today))
          /\ calendarWeeks'
                 = WeeksOf(getCalendarDates(getMonth(today), getFullYear(today)))]_vars

\* mounted with week 54 of 2025 on 2025-06-15: the six rows of June 2025
C17_Witness ==
    /\ mounted
    /\ kind = "week"
    /\ modelValue = WeekModel(2025, 54)
    /\ warned
    /\ currentMonth = 5
    /\ currentYear = Num(2025)
    /\ Len(calendarWeeks) = 6
    /\ calendarWeeks[1][1].day = MakeDay(2025, 4, 26)

\* C18: calculateWeekNum depends only on the calendar day of its argument:
\* a Date on the same local calendar day at another time of day gives the
\* same result, and so does a host whose daylight saving time is in effect
\* on the date and not on January 4th of the week-year (or the reverse).
C18_CalendarDayOnly ==
    WeekDone =>
        \A z \in Zones, h \in DayHours :
            calculateWeekNumIn(z, [day |-> argDate.day, hr |-> h]) = weekId

\* C18, the time of day alone: in one time zone the result is the same at
\* every time of the calendar day
C18_TimeOfDayOnly ==
    WeekDone =>
        \A h \in DayHours :
            calculateWeekNum([day |-> argDate.day, hr |-> h]) = weekId

\* the number of ISO weeks of a year: 53 when January 1st is a Thursday,
\* or a Wednesday in a leap year
WeeksInIsoYear(year) ==
    LET jan1 == (DayFromYear(year) + 4) % 7
    IN IF jan1 = 4 \/ (jan1 = 3 /\ IsLeapYear(year)) THEN 53 ELSE 52

\* the week a week picker's modelValue names
ModelWeek == [weekYear |-> modelValue.weekYear, weekNum |-> modelValue.weekNum]

\* the step of onMounted of a week picker whose modelValue names an
\* existing ISO week of a year from 100 on
MountWithExistingWeek ==
    /\ ~mounted
    /\ mounted'
    /\ kind = "week"
    /\ modelValue.given
    /\ modelValue.weekYear >= 100
    /\ modelValue.weekNum \in 1..WeeksInIsoYear(modelValue.weekYear)

\* C19: when SingleWeekPicker is mounted with a modelValue whose weekYear
\* is at least 100 and whose weekNum is an existing ISO week of that year,
\* the grid displayed after mount has a row whose Monday has the
\* calculateWeekNum of the modelValue, so that row is highlighted.
C19_SelectedWeekDisplayed ==
    [][MountWithExistingWeek =>
          \E k \in DOMAIN calendarWeeks' :
              calculateWeekNum(calendarWeeks'[k][1]) = ModelWeek]_vars

\* the identifier of row k of a week picker: calculateWeekNum(week[0])
RowId(k) == calculateWeekNum(calendarWeeks[k][1])

\* the rows highlighted as active for a modelValue
ActiveRows(week) == {k \in DOMAIN calendarWeeks : RowId(k) = week}

\* the ISO week after a week
IsoSuccessor(week) ==
    IF week.weekNum < WeeksInIsoYear(week.weekYear)
    THEN [weekYear |-> week.weekYear, weekNum |-> week.weekNum + 1]
    ELSE [weekYear |-> week.weekYear + 1, weekNum |-> 1]

\* C20: in SingleWeekPicker, for every displayed (month, year) the rows of
\* the grid have pairwise distinct (weekYear, weekNum) identifiers and
\* pairwise distinct weekNum values (the row keys), each row's identifier
\* is the ISO successor of the one of the row before; so at most one row is
\* active for any modelValue.
C20_RowIdentifiers ==
    (mounted /\ kind = "week") =>
        /\ \A j, k \in DOMAIN calendarWeeks :
               j # k => /\ RowId(j) # RowId(k)
                        /\ RowId(j).weekNum # RowId(k).weekNum
        /\ \A k \in DOMAIN calendarWeeks :
               /\ k > 1 => RowId(k) = IsoSuccessor(RowId(k - 1))
               /\ Cardinality(ActiveRows(RowId(k))) = 1

\* C20, the rows' keys alone: the weekNum values of the rows are pairwise
\* distinct
C20_DistinctKeys ==
    (mounted /\ kind = "week") =>
        \A j, k \in DOMAIN calendarWeeks :
            j # k => RowId(j).weekNum # RowId(k).weekNum

====
